---- MODULE Spec2Model ----
(***************************************************************************)
(* Model of server/scripts/process-badge-image.py: the command-line entry  *)
(* point, find_circle_bounds and process_badge.                            *)
(*                                                                         *)
(* An image is the record [w, h, rowY, colX, row, col]: its size, and the  *)
(* pixels of one row (y = rowY) and one column (x = colX), 0-based.  The   *)
(* program reads pixels only through pixels[x, cy] and pixels[cx, y], so   *)
(* these two lines are all of the pixel data that reaches the program.     *)
(* The alpha channel written by putalpha, and read back after resize, is   *)
(* followed at the four corner pixels and at the centre pixel.             *)
(***************************************************************************)
EXTENDS Integers, Sequences, FiniteSets, TLC

VARIABLES
    pc,          \* position in the script
    argv,        \* sys.argv[1:]
    fs,          \* the files on disk
    fs0,         \* the files on disk when the process started
    stdout,      \* what has been printed, in order
    status,      \* the exit status, None while running
    exc,         \* the uncaught exception that ended the run, or "none"
    writes,      \* the files saved so far, in order
    thresholdArg, \* the threshold find_circle_bounds is called with
    img,         \* process_badge's img
    cropped,     \* process_badge's cropped, find_circle_bounds' img
    circle,      \* what find_circle_bounds returned
    box,         \* (crop_l, crop_t, crop_r, crop_b)
    tight,       \* tight.size
    square_img   \* the canvas: its size and, once masked, its alpha

vars == <<pc, argv, fs, fs0, stdout, status, exc, writes, thresholdArg,
          img, cropped, circle, box, tight, square_img>>

env == <<argv, fs0, thresholdArg>>
locals == <<img, cropped, circle, box, tight, square_img>>

(***************************************************************************)
(* Bounds of the model.                                                    *)
(***************************************************************************)
\* Largest source width and height of the full pipeline (Spec).
MaxW == 6
MaxH == 12
\* Largest width and height of the images handed to the detector alone.
MaxScan == 3
\* Largest disk radius of the synthetic disk images.
MaxR == 3
\* Largest side of the square handed to the compositor alone.
MaxSide == 26

(***************************************************************************)
(* Program constants.                                                      *)
(***************************************************************************)
Threshold == 50
RadiusMargin == 5
MaskMargin == 8
Size1x == 256
Size2x == 512
\* Image.LANCZOS has a support of 3 source pixels on each side.
LanczosSupport == 3

None == <<>>
Some(v) == <<v>>

Max(a, b) == IF a >= b THEN a ELSE b
Min(a, b) == IF a <= b THEN a ELSE b

(***************************************************************************)
(* Pixels: tuples (r, g, b) or (r, g, b, a).                               *)
(***************************************************************************)
Dark == <<0, 0, 0, 255>>
Lit == <<255, 255, 255, 255>>
\* What Image.crop fills in outside the source.
Pad == <<0, 0, 0, 0>>

\* pixels[x, y] of an image, for the row and the column the image carries.
Pixel(im, x, y) == IF y = im.rowY THEN im.row[x + 1] ELSE im.col[y + 1]

\* Variant: the comparison is >= instead of >.
Bright_AtLeast(p, threshold) ==
    LET rgb == SubSeq(p, 1, 3)
    IN  rgb[1] + rgb[2] + rgb[3] >= 3 * threshold

\* (r + g + b) / 3 > threshold, a true division of an integer sum: it holds
\* exactly when the sum exceeds three times the threshold.  p[:3] drops alpha.
Bright(p, threshold) ==
    LET rgb == SubSeq(p, 1, 3)
    IN  rgb[1] + rgb[2] + rgb[3] > 3 * threshold

(***************************************************************************)
(* find_circle_bounds                                                      *)
(***************************************************************************)
\* for x in range(w): the loop of lines 25-29 from column x on.
RECURSIVE ScanRow(_, _, _, _, _, _)
ScanRow(im, threshold, cy, x, first_h, last_h) ==
    IF x >= im.w THEN <<first_h, last_h>>
    ELSE IF Bright(Pixel(im, x, cy), threshold)
         THEN ScanRow(im, threshold, cy, x + 1,
                      IF first_h = None THEN Some(x) ELSE first_h, Some(x))
         ELSE ScanRow(im, threshold, cy, x + 1, first_h, last_h)

\* for y in range(h): the loop of lines 34-38 from row y on.
RECURSIVE ScanCol(_, _, _, _, _, _)
ScanCol(im, threshold, cx, y, first_v, last_v) ==
    IF y >= im.h THEN <<first_v, last_v>>
    ELSE IF Bright(Pixel(im, cx, y), threshold)
         THEN ScanCol(im, threshold, cx, y + 1,
                      IF first_v = None THEN Some(y) ELSE first_v, Some(y))
         ELSE ScanCol(im, threshold, cx, y + 1, first_v, last_v)

\* Variant: the vertical bounds start at 0 instead of None.
CircleOf_ZeroDefault(first_h, last_h, first_v, last_v) ==
    LET fv == IF first_v = None THEN 0 ELSE first_v[1]
        lv == IF last_v = None THEN 0 ELSE last_v[1]
    IN  IF first_h = None \/ last_h = None
        THEN [ok |-> FALSE, exc |-> "TypeError"]
        ELSE [ok |-> TRUE,
              center_x |-> (first_h[1] + last_h[1]) \div 2,
              center_y |-> (fv + lv) \div 2,
              radius |-> Max((last_h[1] - first_h[1]) \div 2, (lv - fv) \div 2) + 5]

\* Variant: the radius has no margin added.
CircleOf_NoMargin(first_h, last_h, first_v, last_v) ==
    IF first_h = None \/ last_h = None \/ first_v = None \/ last_v = None
    THEN [ok |-> FALSE, exc |-> "TypeError"]
    ELSE [ok |-> TRUE,
          center_x |-> (first_h[1] + last_h[1]) \div 2,
          center_y |-> (first_v[1] + last_v[1]) \div 2,
          radius |-> Max((last_h[1] - first_h[1]) \div 2,
                         (last_v[1] - first_v[1]) \div 2)]

\* Variant: the radius is taken from the smaller half-span.
CircleOf_MinHalfSpan(first_h, last_h, first_v, last_v) ==
    IF first_h = None \/ last_h = None \/ first_v = None \/ last_v = None
    THEN [ok |-> FALSE, exc |-> "TypeError"]
    ELSE [ok |-> TRUE,
          center_x |-> (first_h[1] + last_h[1]) \div 2,
          center_y |-> (first_v[1] + last_v[1]) \div 2,
          radius |-> Min((last_h[1] - first_h[1]) \div 2,
                         (last_v[1] - first_v[1]) \div 2) + 5]

\* Lines 40-43.  None + None raises TypeError; center_x is computed first.
CircleOf(first_h, last_h, first_v, last_v) ==
    IF first_h = None \/ last_h = None \/ first_v = None \/ last_v = None
    THEN [ok |-> FALSE, exc |-> "TypeError"]
    ELSE [ok |-> TRUE,
          center_x |-> (first_h[1] + last_h[1]) \div 2,
          center_y |-> (first_v[1] + last_v[1]) \div 2,
          radius |-> Max((last_h[1] - first_h[1]) \div 2,
                         (last_v[1] - first_v[1]) \div 2) + RadiusMargin]

FindCircleBounds(im, threshold) ==
    LET cy == im.h \div 2
        cx == im.w \div 2
        hs == ScanRow(im, threshold, cy, 0, None, None)
        vs == ScanCol(im, threshold, cx, 0, None, None)
    IN  CircleOf(hs[1], hs[2], vs[1], vs[2])

(***************************************************************************)
(* Image.crop and the boxes of process_badge                               *)
(***************************************************************************)
\* Image.crop((l, t, r, b)): size (r - l, b - t); outside the source, zeros.
Crop(im, l, t, r, b) ==
    [w |-> r - l, h |-> b - t,
     rowY |-> im.rowY - t, colX |-> im.colX - l,
     row |-> [i \in 1..(r - l) |->
                 IF l + i - 1 \in 0..(im.w - 1) THEN im.row[l + i] ELSE Pad],
     col |-> [j \in 1..(b - t) |->
                 IF t + j - 1 \in 0..(im.h - 1) THEN im.col[t + j] ELSE Pad]]

\* Lines 51-53: the square crop, height-based and centred horizontally.
SquareBox(w, h) ==
    LET square_size == h
        left == (w - square_size) \div 2
    IN  [l |-> left, t |-> 0, r |-> left + square_size, b |-> square_size]

\* Variant: the left and top edges are not clamped.
TightBox_NoClamp(square_size, c) ==
    [l |-> c.center_x - c.radius,
     t |-> c.center_y - c.radius,
     r |-> Min(square_size, c.center_x + c.radius),
     b |-> Min(square_size, c.center_y + c.radius)]

\* Lines 60-63: the tight crop box, clamped to the square.
TightBox(square_size, c) ==
    [l |-> Max(0, c.center_x - c.radius),
     t |-> Max(0, c.center_y - c.radius),
     r |-> Min(square_size, c.center_x + c.radius),
     b |-> Min(square_size, c.center_y + c.radius)]

(***************************************************************************)
(* The mask and the resize                                                 *)
(***************************************************************************)
\* draw.ellipse([x0, y0, x1, y1], fill=255) on a mask of zeros: how pixel
\* (x, y) stands to the ellipse.  A pixel outside the bounding box is never
\* drawn; one within the ellipse through the box's edge midpoints is always
\* drawn; the rest of the box is left to the rasteriser ("edge").
EllipseClass(x0, y0, x1, y1, x, y) ==
    IF x < x0 \/ x > x1 \/ y < y0 \/ y > y1 THEN "out"
    ELSE IF (2 * x - x0 - x1) * (2 * x - x0 - x1) * (y1 - y0) * (y1 - y0)
            + (2 * y - y0 - y1) * (2 * y - y0 - y1) * (x1 - x0) * (x1 - x0)
            <= (x1 - x0) * (x1 - x0) * (y1 - y0) * (y1 - y0)
            /\ (x1 > x0 \/ 2 * x = x0 + x1) /\ (y1 > y0 \/ 2 * y = y0 + y1)
         THEN "in"
         ELSE "edge"

\* Variant: the ellipse is not inset from the canvas's edges.
MaskClass_NoInset(max_dim, x, y) == EllipseClass(0, 0, max_dim, max_dim, x, y)

\* Line 76 on a max_dim x max_dim mask.
MaskClass(max_dim, x, y) ==
    LET margin == MaskMargin
    IN  EllipseClass(margin, margin, max_dim - margin, max_dim - margin, x, y)

\* The alpha values pixel (x, y) of the mask can have after line 76.
MaskAlpha(max_dim, x, y) ==
    CASE MaskClass(max_dim, x, y) = "in" -> {255}
      [] MaskClass(max_dim, x, y) = "out" -> {0}
      [] OTHER -> {0, 255}

\* The source pixels that output pixel xx of a resize from n_in to n_out
\* pixels is computed from: centre (xx + 0.5) * scale, support
\* LanczosSupport * max(1, scale), scale = n_in / n_out, clipped to the image.
ResizeWindow(n_in, n_out, xx) ==
    LET num == (2 * xx + 1) * n_in
        sup == 2 * LanczosSupport * Max(n_in, n_out)
        lo == Max(0, (num - sup + n_out) \div (2 * n_out))
        hi == Min(n_in, (num + sup + n_out) \div (2 * n_out))
    IN  lo..(hi - 1)

\* The alpha values output pixel (xx, yy) can have after resizing the masked
\* canvas: the filter's weights sum to one, so a window of equal alphas keeps
\* that alpha, and a mixed window gives some blend.
ResizedAlpha(max_dim, n_out, xx, yy) ==
    LET win == ResizeWindow(max_dim, n_out, xx) \X ResizeWindow(max_dim, n_out, yy)
    IN  IF \A p \in win : MaskClass(max_dim, p[1], p[2]) = "out" THEN {0}
        ELSE IF \A p \in win : MaskClass(max_dim, p[1], p[2]) = "in" THEN {255}
        ELSE {0, 128, 255}

(***************************************************************************)
(* Paths and files                                                         *)
(***************************************************************************)
\* A path is [dir, stem, suffix]; os.path.dirname keeps dir, os.path.join
\* puts a file name under a directory.
SrcPath == [dir |-> "public/images/badges", stem |-> "source", suffix |-> ".png"]
OutputName == "penguin"
Dirname(p) == p.dir
Join(d, stem, suffix) == [dir |-> d, stem |-> stem, suffix |-> suffix]

\* Variant: the larger output gets the smaller one's file name.
Path2x_SameSuffix(src_path, output_name) == Join(Dirname(src_path), output_name, ".png")

\* Lines 80-82.
Path1x(src_path, output_name) == Join(Dirname(src_path), output_name, ".png")
Path2x(src_path, output_name) == Join(Dirname(src_path), output_name, "@2x.png")

Exists(p) == \E f \in fs : f.path = p
FileAt(p) == CHOOSE f \in fs : f.path = p

\* The command lines: no argument, one, two, three.
ArgVectors ==
    {<<>>, <<SrcPath>>, <<SrcPath, OutputName>>, <<SrcPath, OutputName, OutputName>>}

\* The source path names nothing, an image file, or something that is no image.
SourceFiles == {{}, {[path |-> SrcPath, kind |-> "image"]},
                {[path |-> SrcPath, kind |-> "other"]}}

(***************************************************************************)
(* The images the runs are checked on                                      *)
(***************************************************************************)
\* A line of n pixels, dark but for the span f..l: lit at both ends, and in
\* between when solid.
SpanLine(n, f, l, solid) ==
    [i \in 1..n |-> IF i - 1 = f \/ i - 1 = l \/ (solid /\ f < i - 1 /\ i - 1 < l)
                    THEN Lit ELSE Dark]

Lines(n, solids) ==
    {[i \in 1..n |-> Dark]}
    \cup {SpanLine(n, f, l, solid) : f \in 0..(n - 1), l \in 0..(n - 1), solid \in solids}

\* A source image carries the row and the column that become the middle row
\* and the middle column of the square crop.
SourceImagesOf(w, h) ==
    LET rowY == h \div 2
        colX == SquareBox(w, h).l + h \div 2
    IN  {[w |-> w, h |-> h, rowY |-> rowY, colX |-> colX, row |-> r, col |-> c] :
            <<r, c>> \in {rc \in Lines(w, BOOLEAN) \X Lines(h, BOOLEAN) :
                            rc[1][colX + 1] = rc[2][rowY + 1]}}

SourceImages(maxW, maxH) == UNION {SourceImagesOf(w, h) : w \in 1..maxW, h \in 1..maxH}

NoImage == [w |-> 0, h |-> 0, rowY |-> 0, colX |-> 0, row |-> <<>>, col |-> <<>>]
NoCircle == [ok |-> FALSE, exc |-> "none"]
NoBox == [l |-> 0, t |-> 0, r |-> 0, b |-> 0]
NoSize == [w |-> 0, h |-> 0]
NoCanvas == [w |-> 0, h |-> 0, masked |-> FALSE, alpha |-> <<>>]

(***************************************************************************)
(* The script                                                              *)
(***************************************************************************)
Init ==
    /\ pc = "start"
    /\ argv \in ArgVectors
    /\ fs \in SourceFiles
    /\ fs0 = fs
    /\ stdout = <<>>
    /\ status = None
    /\ exc = "none"
    /\ writes = <<>>
    /\ thresholdArg = Threshold
    /\ img = NoImage
    /\ cropped = NoImage
    /\ circle = NoCircle
    /\ box = NoBox
    /\ tight = NoSize
    /\ square_img = NoCanvas

\* sys.exit(code).
Exit(code) == pc' = "exited" /\ status' = Some(code) /\ exc' = "none"

\* An exception nothing catches: the interpreter exits with status 1.
Raise(e) == pc' = "exited" /\ status' = Some(1) /\ exc' = e

\* Variant: only too few arguments are refused.
ArgCheck_TooFewOnly ==
    /\ pc = "start"
    /\ IF Len(argv) + 1 < 3
       THEN /\ stdout' = Append(stdout, "usage")
            /\ Exit(1)
       ELSE /\ pc' = "args_ok"
            /\ UNCHANGED <<stdout, status, exc>>
    /\ UNCHANGED <<env, fs, writes, locals>>

\* Lines 92-94.
ArgCheck ==
    /\ pc = "start"
    /\ IF Len(argv) + 1 # 3
       THEN /\ stdout' = Append(stdout, "usage")
            /\ Exit(1)
       ELSE /\ pc' = "args_ok"
            /\ UNCHANGED <<stdout, status, exc>>
    /\ UNCHANGED <<env, fs, writes, locals>>

\* Variant: the error is printed and the run goes on.
ExistsCheck_NoExit ==
    /\ pc = "args_ok"
    /\ stdout' = IF ~Exists(argv[1]) THEN Append(stdout, "not found") ELSE stdout
    /\ pc' = "process_badge"
    /\ UNCHANGED <<env, fs, status, exc, writes, locals>>

\* Lines 96-99.
ExistsCheck ==
    /\ pc = "args_ok"
    /\ LET src == argv[1]
       IN  IF ~Exists(src)
           THEN /\ stdout' = Append(stdout, "not found")
                /\ Exit(1)
           ELSE /\ pc' = "process_badge"
                /\ UNCHANGED <<stdout, status, exc>>
    /\ UNCHANGED <<env, fs, writes, locals>>

\* Lines 46-48: Image.open of a file that is an image, of any size and content.
Open ==
    /\ pc = "process_badge"
    /\ Exists(argv[1])
    /\ FileAt(argv[1]).kind = "image"
    /\ \E im \in SourceImages(MaxW, MaxH) : img' = im
    /\ stdout' = Append(stdout, "source size")
    /\ pc' = "opened"
    /\ UNCHANGED <<env, fs, status, exc, writes, cropped, circle, box, tight, square_img>>

\* Line 46: Image.open of a missing file, or of one that is no image, raises.
OpenFails ==
    /\ pc = "process_badge"
    /\ IF Exists(argv[1])
       THEN FileAt(argv[1]).kind # "image" /\ Raise("UnidentifiedImageError")
       ELSE Raise("FileNotFoundError")
    /\ UNCHANGED <<env, fs, stdout, writes, locals>>

\* Lines 51-53.
SquareCrop ==
    /\ pc = "opened"
    /\ LET sq == SquareBox(img.w, img.h)
       IN  cropped' = Crop(img, sq.l, sq.t, sq.r, sq.b)
    /\ pc' = "cropped"
    /\ UNCHANGED <<env, fs, stdout, status, exc, writes, img, circle, box, tight, square_img>>

\* Lines 56-57.
Detect ==
    /\ pc = "cropped"
    /\ LET found == FindCircleBounds(cropped, thresholdArg)
       IN  IF found.ok
           THEN /\ circle' = found
                /\ stdout' = Append(stdout, "circle")
                /\ pc' = "detected"
                /\ UNCHANGED <<status, exc>>
           ELSE /\ Raise(found.exc)
                /\ UNCHANGED <<circle, stdout>>
    /\ UNCHANGED <<env, fs, writes, img, cropped, box, tight, square_img>>

\* Lines 60-64.
TightCrop ==
    /\ pc = "detected"
    /\ LET square_size == img.h
           b == TightBox(square_size, circle)
       IN  /\ box' = b
           /\ tight' = [w |-> b.r - b.l, h |-> b.b - b.t]
    /\ pc' = "tight"
    /\ UNCHANGED <<env, fs, stdout, status, exc, writes, img, cropped, circle, square_img>>

\* Lines 67-70.
PadSquare ==
    /\ pc = "tight"
    /\ LET max_dim == Max(tight.w, tight.h)
       IN  square_img' = [w |-> max_dim, h |-> max_dim, masked |-> FALSE, alpha |-> <<>>]
    /\ pc' = "padded"
    /\ UNCHANGED <<env, fs, stdout, status, exc, writes, img, cropped, circle, box, tight>>

\* The pixels whose alpha is followed: the four corners and the centre.
Probes == {"tl", "tr", "bl", "br", "c"}
ProbeX(n, p) == CASE p \in {"tl", "bl"} -> 0 [] p \in {"tr", "br"} -> n - 1 [] OTHER -> n \div 2
ProbeY(n, p) == CASE p \in {"tl", "tr"} -> 0 [] p \in {"bl", "br"} -> n - 1 [] OTHER -> n \div 2

\* The alpha of the five probes, each drawn from the values it can have.
ProbeAlphas(S) ==
    {[tl |-> a, tr |-> b, bl |-> c, br |-> d, c |-> e] :
        <<a, b, c, d, e>> \in S["tl"] \X S["tr"] \X S["bl"] \X S["br"] \X S["c"]}

\* Lines 73-77: the mask is drawn and replaces the canvas's alpha.
Mask ==
    /\ pc = "padded"
    /\ LET max_dim == square_img.w
           S == [p \in Probes |-> MaskAlpha(max_dim, ProbeX(max_dim, p), ProbeY(max_dim, p))]
       IN  \E a \in ProbeAlphas(S) :
              square_img' = [square_img EXCEPT !.masked = TRUE, !.alpha = a]
    /\ pc' = "masked"
    /\ UNCHANGED <<env, fs, stdout, status, exc, writes, img, cropped, circle, box, tight>>

\* Line 76: newer Pillow releases refuse a box whose x1 is less than its x0
\* (ValueError); older ones draw nothing, which is Mask on a box that holds
\* no pixel.
MaskRaises ==
    /\ pc = "padded"
    /\ square_img.w - MaskMargin < MaskMargin
    /\ Raise("ValueError")
    /\ UNCHANGED <<env, fs, stdout, writes, locals>>

\* square_img.resize((n, n), Image.LANCZOS): the file that save then writes.
Resized(n, path) ==
    LET S == [p \in Probes |-> ResizedAlpha(square_img.w, n, ProbeX(n, p), ProbeY(n, p))]
    IN  {[path |-> path, kind |-> "image", w |-> n, h |-> n, alpha |-> a] :
            a \in ProbeAlphas(S)}

WriteFile(f) ==
    /\ fs' = {g \in fs : g.path # f.path} \cup {f}
    /\ writes' = Append(writes, f)

\* Line 84.
Save1x ==
    /\ pc = "masked"
    /\ \E f \in Resized(Size1x, Path1x(argv[1], argv[2])) : WriteFile(f)
    /\ pc' = "saved_1x"
    /\ UNCHANGED <<env, stdout, status, exc, locals>>

\* Line 85.
Save2x ==
    /\ pc = "saved_1x"
    /\ \E f \in Resized(Size2x, Path2x(argv[1], argv[2])) : WriteFile(f)
    /\ pc' = "saved_2x"
    /\ UNCHANGED <<env, stdout, status, exc, locals>>

\* Lines 84-85: a save the file system refuses raises.
SaveFails ==
    /\ pc \in {"masked", "saved_1x"}
    /\ Raise("OSError")
    /\ UNCHANGED <<env, fs, stdout, writes, locals>>

\* Lines 87-89.
Report ==
    /\ pc = "saved_2x"
    /\ stdout' = stdout \o <<"size 1x", "size 2x">>
    /\ pc' = "returned"
    /\ UNCHANGED <<env, fs, status, exc, writes, locals>>

\* Line 102, and the end of the script.
Done ==
    /\ pc = "returned"
    /\ stdout' = Append(stdout, "Done!")
    /\ Exit(0)
    /\ UNCHANGED <<env, fs, writes, locals>>

Next ==
    \/ ArgCheck
    \/ ExistsCheck
    \/ Open
    \/ OpenFails
    \/ SquareCrop
    \/ Detect
    \/ TightCrop
    \/ PadSquare
    \/ Mask
    \/ MaskRaises
    \/ Save1x
    \/ Save2x
    \/ SaveFails
    \/ Report
    \/ Done

Spec == Init /\ [][Next]_vars

(***************************************************************************)
(* find_circle_bounds alone, on small images of every content              *)
(***************************************************************************)
\* Pixels around the threshold: black, an average of exactly 50, an average
\* just above 50, white.
ScanColours == {<<0, 0, 0>>, <<50, 50, 50>>, <<50, 50, 51>>, <<255, 255, 255>>}

\* The pixels of an RGB image, and of an RGBA image (alpha 0 on the pixel
\* just above the threshold, 255 elsewhere).
ScanPixels(mode) ==
    IF mode = "RGB" THEN ScanColours
    ELSE {Append(c, IF c = <<50, 50, 51>> THEN 0 ELSE 255) : c \in ScanColours}

ScanImagesOf(w, h, mode) ==
    LET rowY == h \div 2
        colX == w \div 2
    IN  {[w |-> w, h |-> h, rowY |-> rowY, colX |-> colX, row |-> rc[1], col |-> rc[2]] :
            rc \in {q \in [1..w -> ScanPixels(mode)] \X [1..h -> ScanPixels(mode)] :
                      q[1][colX + 1] = q[2][rowY + 1]}}

ScanImages(maxScan) ==
    UNION {ScanImagesOf(w, h, mode) : w \in 1..maxScan, h \in 1..maxScan, mode \in {"RGB", "RGBA"}}

\* A w x h image, dark but for a disk of radius R about (w div 2, h div 2).
InDisk(w, h, R, x, y) ==
    (x - w \div 2) * (x - w \div 2) + (y - h \div 2) * (y - h \div 2) <= R * R

DiskImage(w, h, R, lit, dark) ==
    [w |-> w, h |-> h, rowY |-> h \div 2, colX |-> w \div 2,
     row |-> [i \in 1..w |-> IF InDisk(w, h, R, i - 1, h \div 2) THEN lit ELSE dark],
     col |-> [j \in 1..h |-> IF InDisk(w, h, R, w \div 2, j - 1) THEN lit ELSE dark]]

\* The disk lies entirely inside the image.
DiskInside(w, h, R) ==
    /\ w \div 2 - R >= 0 /\ w \div 2 + R <= w - 1
    /\ h \div 2 - R >= 0 /\ h \div 2 + R <= h - 1

DiskImages(maxR) ==
    {DiskImage(d[1], d[2], d[3], lit, dark) :
        d \in {e \in (1..(2 * maxR + 2)) \X (1..(2 * maxR + 2)) \X (0..maxR) :
                 DiskInside(e[1], e[2], e[3])},
        lit \in {Lit, <<50, 50, 51, 255>>},
        dark \in {Dark, <<50, 50, 50, 255>>}}

InitDetect ==
    /\ pc = "cropped"
    /\ cropped \in ScanImages(MaxScan) \cup DiskImages(MaxR)
    /\ thresholdArg \in {0, Threshold}
    /\ argv = <<SrcPath, OutputName>>
    /\ fs = {[path |-> SrcPath, kind |-> "image"]}
    /\ fs0 = fs
    /\ stdout = <<"source size">>
    /\ status = None
    /\ exc = "none"
    /\ writes = <<>>
    /\ img = NoImage
    /\ circle = NoCircle
    /\ box = NoBox
    /\ tight = NoSize
    /\ square_img = NoCanvas

NextDetect == Detect

SpecDetect == InitDetect /\ [][NextDetect]_vars

(***************************************************************************)
(* The compositor and the exporter alone, from every circle the detector   *)
(* returns on a square of side up to MaxSide                               *)
(***************************************************************************)
\* An image of which only the size is kept.
ImageOfSize(w, h) ==
    [w |-> w, h |-> h, rowY |-> h \div 2, colX |-> w \div 2, row |-> <<>>, col |-> <<>>]

\* What the two scans can find on a square of side s: a first and a last lit
\* pixel on the middle row and on the middle column, which share the pixel
\* (s div 2, s div 2): it is lit on both lines or on neither.
ScanResults(s) ==
    LET c == s \div 2
        spans == {p \in (0..(s - 1)) \X (0..(s - 1)) : p[1] <= p[2]}
        Around(p) == p[1] <= c /\ c <= p[2]
        Off(p) == c # p[1] /\ c # p[2]
    IN  {q \in spans \X spans : (Around(q[1]) /\ Around(q[2])) \/ (Off(q[1]) /\ Off(q[2]))}

InitCompose ==
    /\ pc = "detected"
    /\ \E s \in 1..MaxSide : \E q \in ScanResults(s) :
          /\ circle = CircleOf(Some(q[1][1]), Some(q[1][2]), Some(q[2][1]), Some(q[2][2]))
          /\ img = ImageOfSize(s, s)
          /\ cropped = ImageOfSize(s, s)
    /\ thresholdArg = Threshold
    /\ argv = <<SrcPath, OutputName>>
    /\ fs = {[path |-> SrcPath, kind |-> "image"]}
    /\ fs0 = fs
    /\ stdout = <<"source size", "circle">>
    /\ status = None
    /\ exc = "none"
    /\ writes = <<>>
    /\ box = NoBox
    /\ tight = NoSize
    /\ square_img = NoCanvas

NextCompose ==
    \/ TightCrop
    \/ PadSquare
    \/ Mask
    \/ MaskRaises
    \/ Save1x
    \/ Save2x
    \/ SaveFails
    \/ Report
    \/ Done

SpecCompose == InitCompose /\ [][NextCompose]_vars

(***************************************************************************)
(* Vocabulary of the properties                                            *)
(***************************************************************************)
\* The RGB average of pixel p exceeds t (alpha, when there is one, unused).
Exceeds(p, t) == p[1] + p[2] + p[3] > 3 * t

\* The x on the middle row, and the y on the middle column, whose pixel
\* exceeds the threshold.
LitXs(im, t) == {x \in 0..(im.w - 1) : Exceeds(Pixel(im, x, im.h \div 2), t)}
LitYs(im, t) == {y \in 0..(im.h - 1) : Exceeds(Pixel(im, im.w \div 2, y), t)}

MinOf(S) == CHOOSE m \in S : \A n \in S : m <= n
MaxOf(S) == CHOOSE m \in S : \A n \in S : m >= n
Dist(a, b) == IF a >= b THEN a - b ELSE b - a

\* The middle lines of im are those of a disk of radius R about the centre
\* pixel, the disk inside the image.
IsDisk(im, t, R) ==
    /\ DiskInside(im.w, im.h, R)
    /\ LitXs(im, t) = {x \in 0..(im.w - 1) : InDisk(im.w, im.h, R, x, im.h \div 2)}
    /\ LitYs(im, t) = {y \in 0..(im.h - 1) : InDisk(im.w, im.h, R, im.w \div 2, y)}

Corners == {"tl", "tr", "bl", "br"}
Printed(msg) == \E i \in 1..Len(stdout) : stdout[i] = msg

(***************************************************************************)
(* Properties of the script (Spec)                                         *)
(***************************************************************************)
\* C1: with any number of arguments other than two the run prints the usage
\* text and exits with status 1, and that is all it does: the source path is
\* not checked, no image is opened, no file is written.
C1_UsageExit ==
    Len(argv) # 2 =>
        /\ pc \in {"start", "exited"}
        /\ pc = "exited" =>
              /\ status = Some(1)
              /\ exc = "none"
              /\ stdout = <<"usage">>
              /\ img = NoImage
              /\ writes = <<>>
              /\ fs = fs0

C1_Witness ==
    pc = "exited" /\ Len(argv) = 3 /\ status = Some(1) /\ stdout = <<"usage">>

\* C2: with two arguments and no file at the source path the run prints the
\* error message and exits with status 1; process_badge is never entered and
\* the files on disk are those from before the run.
C2_MissingSource ==
    (Len(argv) = 2 /\ ~(\E f \in fs0 : f.path = argv[1])) =>
        /\ pc \in {"start", "args_ok", "exited"}
        /\ pc = "exited" =>
              /\ status = Some(1)
              /\ exc = "none"
              /\ stdout = <<"not found">>
              /\ img = NoImage
              /\ writes = <<>>
              /\ fs = fs0

C2_Witness ==
    pc = "exited" /\ Len(argv) = 2 /\ fs0 = {} /\ status = Some(1) /\ fs = {}

\* C3: a run that exits with status 0 has written exactly two files, both in
\* the source's directory: first <name>.png of 256 x 256, then <name>@2x.png
\* of 512 x 512, whatever the source's width and height; "Done!" is printed
\* only after both.
C3_TwoOutputs ==
    /\ Len(writes) <= 2
    /\ Len(writes) >= 1 =>
          /\ writes[1].path = [dir |-> argv[1].dir, stem |-> argv[2], suffix |-> ".png"]
          /\ writes[1].w = 256 /\ writes[1].h = 256
    /\ Len(writes) = 2 =>
          /\ writes[2].path = [dir |-> argv[1].dir, stem |-> argv[2], suffix |-> "@2x.png"]
          /\ writes[2].w = 512 /\ writes[2].h = 512
    /\ Printed("Done!") => Len(writes) = 2
    /\ (pc = "exited" /\ status = Some(0)) =>
          /\ Len(writes) = 2
          /\ stdout[Len(stdout)] = "Done!"
          /\ fs \ fs0 = {writes[1], writes[2]}
          /\ Cardinality(fs \ fs0) = 2

C3_Witness ==
    /\ pc = "exited" /\ status = Some(0)
    /\ img.w < img.h
    /\ Len(writes) = 2 /\ writes[1].w = 256 /\ writes[2].w = 512

\* C4: when the middle row or the middle column of the square crop has no
\* pixel above the threshold, find_circle_bounds returns nothing: the run ends
\* in a TypeError with status 1 and has written no file.
C4_DarkMidlineRaises ==
    (cropped # NoImage /\ pc # "cropped"
     /\ (LitXs(cropped, thresholdArg) = {} \/ LitYs(cropped, thresholdArg) = {})) =>
        /\ pc = "exited"
        /\ exc = "TypeError"
        /\ status = Some(1)
        /\ circle = NoCircle
        /\ writes = <<>>
        /\ fs = fs0

C4_Witness ==
    /\ pc = "exited" /\ exc = "TypeError" /\ status = Some(1)
    /\ LitXs(cropped, thresholdArg) # {}
    /\ LitYs(cropped, thresholdArg) = {}

\* C10: once the tight crop box is computed it covers the lit spans: every
\* lit x of the square's middle row is in crop_l..crop_r - 1 and every lit y
\* of its middle column in crop_t..crop_b - 1.
C10_BoxCoversSpans ==
    box # NoBox =>
        /\ \A x \in LitXs(cropped, thresholdArg) : box.l <= x /\ x < box.r
        /\ \A y \in LitYs(cropped, thresholdArg) : box.t <= y /\ y < box.b

\* A row span of odd length last - first, whose floor-divided centre and
\* half-span leave the box ending 4 past the last lit pixel, the right edge
\* not clamping; and a column lit at y = 0, where the top edge clamps.
C10_Witness ==
    /\ box # NoBox
    /\ (MaxOf(LitXs(cropped, thresholdArg)) - MinOf(LitXs(cropped, thresholdArg))) % 2 = 1
    /\ box.r < cropped.w /\ box.r = MaxOf(LitXs(cropped, thresholdArg)) + 4
    /\ MinOf(LitYs(cropped, thresholdArg)) = 0 /\ box.t = 0

(***************************************************************************)
(* Properties of find_circle_bounds (SpecDetect)                           *)
(***************************************************************************)
\* C5: on an image that is dark but for a bright disk of radius R about the
\* centre pixel (w div 2, h div 2), the disk inside the image, the detector
\* returns a centre within 1 of the centre pixel in each coordinate and a
\* radius within 1 of R + 5.
C5_DiskDetected ==
    \A R \in 0..(cropped.w + cropped.h) :
        (pc # "cropped" /\ IsDisk(cropped, thresholdArg, R)) =>
            /\ pc = "detected"
            /\ circle.ok
            /\ Dist(circle.center_x, cropped.w \div 2) <= 1
            /\ Dist(circle.center_y, cropped.h \div 2) <= 1
            /\ Dist(circle.radius, R + 5) <= 1

C5_Witness ==
    /\ pc = "detected"
    /\ IsDisk(cropped, thresholdArg, 2)
    /\ cropped.w # cropped.h
    /\ circle.radius = 7

\* C8: when both middle lines have a pixel above the threshold, the detector
\* returns center_x = (first_h + last_h) div 2, center_y = (first_v + last_v)
\* div 2 and radius = max((last_h - first_h) div 2, (last_v - first_v) div 2)
\* + 5, first and last being the least and the greatest lit index of the line;
\* a pixel whose average equals the threshold is not lit, and alpha is unused.
C8_DetectorFormula ==
    LET xs == LitXs(cropped, thresholdArg)
        ys == LitYs(cropped, thresholdArg)
    IN  (pc # "cropped" /\ xs # {} /\ ys # {}) =>
            /\ pc = "detected"
            /\ circle = [ok |-> TRUE,
                         center_x |-> (MinOf(xs) + MaxOf(xs)) \div 2,
                         center_y |-> (MinOf(ys) + MaxOf(ys)) \div 2,
                         radius |-> Max((MaxOf(xs) - MinOf(xs)) \div 2,
                                        (MaxOf(ys) - MinOf(ys)) \div 2) + 5]

\* A pixel at exactly the threshold beyond the last lit one, and a lit pixel
\* of alpha 0.
C8_Witness ==
    /\ pc = "detected"
    /\ thresholdArg = 50
    /\ cropped.w = 3
    /\ cropped.row[1] = <<50, 50, 51, 0>>
    /\ cropped.row[3] = <<50, 50, 50, 255>>
    /\ circle.center_x = 0

(***************************************************************************)
(* Properties of the compositor (SpecCompose)                              *)
(***************************************************************************)
\* C9: the tight crop box is clamped to the square of side s = h and is not
\* empty: 0 <= crop_l < crop_r <= s and 0 <= crop_t < crop_b <= s.
C9_BoxInSquare ==
    pc # "detected" =>
        /\ 0 <= box.l /\ box.l < box.r /\ box.r <= img.h
        /\ 0 <= box.t /\ box.t < box.b /\ box.b <= img.h

\* Clamped on the right and at the top, not on the left nor at the bottom.
C9_Witness ==
    /\ pc = "tight"
    /\ box.l > 0 /\ box.r = img.h /\ circle.center_x + circle.radius > img.h
    /\ box.t = 0 /\ circle.center_y - circle.radius < 0 /\ box.b < img.h

\* C6: once masked, the canvas is square, of side the larger of the tight
\* crop's width and height, and its four corner pixels have alpha 0; so have
\* the four corner pixels of every output written.
C6_SquareClearCorners ==
    /\ square_img.masked =>
          /\ square_img.w = square_img.h
          /\ square_img.w = Max(tight.w, tight.h)
          /\ \A p \in Corners : square_img.alpha[p] = 0
    /\ \A i \in 1..Len(writes) : \A p \in Corners : writes[i].alpha[p] = 0

\* A tight crop that is not square, on a canvas large enough for the ellipse
\* to cover the centre of the canvas and of both outputs.
C6_Witness ==
    /\ square_img.masked
    /\ tight.w # tight.h
    /\ square_img.alpha["c"] = 255
    /\ Len(writes) = 2
    /\ writes[1].alpha["c"] = 255 /\ writes[2].alpha["c"] = 255
    /\ \A p \in Corners : writes[2].alpha[p] = 0

\* C7: once masked, the centre pixel of the canvas has alpha 255, and so has
\* the centre pixel of every output written, for every canvas the pipeline
\* produces.
C7_CentreOpaque ==
    /\ square_img.masked => square_img.alpha["c"] = 255
    /\ \A i \in 1..Len(writes) : writes[i].alpha["c"] = 255

====
